---------------------------- MODULE Spec2Model ----------------------------
(***************************************************************************)
(* A model of uproot4/interpretation/library.py: the backend registry      *)
(* (_libraries, _regularize_library), the lazy dependency check            *)
(* (Library.imported), Awkward.finalize, and Library/Awkward/Pandas.group. *)
(*                                                                         *)
(* Python strings are modelled as sequences of one-character strings, so   *)
(* that slicing, str.strip and case are computed and not assumed.          *)
(***************************************************************************)
EXTENDS Integers, Sequences, FiniteSets, TLC

VARIABLES
    installed,      \* packages the interpreter could import right now (the environment)
    sys_modules,    \* Python's module cache: package -> handle (0: not loaded)
    acquisitions,   \* package -> number of times the import machinery searched for it
    first,          \* package -> outcome of the first read of `imported` (history)
    pc,             \* "idle" | "pending" (call drawn, not yet run) | "done"
    call,           \* the operation being run and its arguments
    result,         \* what the operation returned or raised
    locals          \* the local variables of the call, as they stand at its end

vars == <<installed, sys_modules, acquisitions, first, pc, call, result, locals>>

(***************************************************************************)
(* Bounds of the model.                                                    *)
(***************************************************************************)
MaxAcquisitions == 3
MaxCallers == 2

(***************************************************************************)
(* Python strings.                                                         *)
(***************************************************************************)
LowerCase == <<"a", "b", "c", "d", "e", "f", "g", "h", "i", "j", "k", "l", "m",
               "n", "o", "p", "q", "r", "s", "t", "u", "v", "w", "x", "y", "z">>
UpperCase == <<"A", "B", "C", "D", "E", "F", "G", "H", "I", "J", "K", "L", "M",
               "N", "O", "P", "Q", "R", "S", "T", "U", "V", "W", "X", "Y", "Z">>

Range(s) == {s[i] : i \in DOMAIN s}

\* str.lower() and str.upper() on one character
LowerChar(c) ==
    IF \E i \in DOMAIN UpperCase : UpperCase[i] = c
    THEN LowerCase[CHOOSE i \in DOMAIN UpperCase : UpperCase[i] = c]
    ELSE c
UpperChar(c) ==
    IF \E i \in DOMAIN LowerCase : LowerCase[i] = c
    THEN UpperCase[CHOOSE i \in DOMAIN LowerCase : LowerCase[i] = c]
    ELSE c
Lower(s) == [i \in DOMAIN s |-> LowerChar(s[i])]

\* every spelling of s that differs from it only in letter case
CaseVariants(s) ==
    {[i \in DOMAIN s |-> IF up[i] THEN UpperChar(s[i]) ELSE LowerChar(s[i])] :
        up \in [DOMAIN s -> BOOLEAN]}

\* s[:n] and s[n:]
Take(s, n) == SubSeq(s, 1, n)
Drop(s, n) == SubSeq(s, n + 1, Len(s))

\* repr() of a str
Repr(s) == <<"'">> \o s \o <<"'">>

(***************************************************************************)
(* The backends and the registry.                                          *)
(***************************************************************************)
NumPy_instance   == [class |-> "NumPy",   name |-> <<"n", "p">>, oid |-> 1]
Awkward_instance == [class |-> "Awkward", name |-> <<"a", "k">>, oid |-> 2]
Pandas_instance  == [class |-> "Pandas",  name |-> <<"p", "d">>, oid |-> 3]
CuPy_instance    == [class |-> "CuPy",    name |-> <<"c", "p">>, oid |-> 4]

Singletons == {NumPy_instance, Awkward_instance, Pandas_instance, CuPy_instance}
Classes == {"NumPy", "Awkward", "Pandas", "CuPy"}

\* a new object of the class, as `library()` makes one; only its name is read
Instantiate(class, oid) ==
    [class |-> class,
     name |-> (CHOOSE s \in Singletons : s.class = class).name,
     oid |-> oid]

_libraries ==
       <<"n", "p">>                                  :> NumPy_instance @@
       <<"a", "k">>                                  :> Awkward_instance @@
       <<"p", "d">>                                  :> Pandas_instance @@
       <<"c", "p">>                                  :> CuPy_instance @@
       <<"n", "u", "m", "p", "y">>                   :> NumPy_instance @@
       <<"N", "u", "m", "p", "y">>                   :> NumPy_instance @@
       <<"N", "u", "m", "P", "y">>                   :> NumPy_instance @@
       <<"N", "U", "M", "P", "Y">>                   :> NumPy_instance @@
       <<"a", "w", "k", "w", "a", "r", "d", "1">>    :> Awkward_instance @@
       <<"A", "w", "k", "w", "a", "r", "d", "1">>    :> Awkward_instance @@
       <<"A", "W", "K", "W", "A", "R", "D", "1">>    :> Awkward_instance @@
       <<"a", "w", "k", "w", "a", "r", "d">>         :> Awkward_instance @@
       <<"A", "w", "k", "w", "a", "r", "d">>         :> Awkward_instance @@
       <<"A", "W", "K", "W", "A", "R", "D">>         :> Awkward_instance @@
       <<"p", "a", "n", "d", "a", "s">>              :> Pandas_instance @@
       <<"P", "a", "n", "d", "a", "s">>              :> Pandas_instance @@
       <<"P", "A", "N", "D", "A", "S">>              :> Pandas_instance @@
       <<"c", "u", "p", "y">>                        :> CuPy_instance @@
       <<"C", "u", "p", "y">>                        :> CuPy_instance @@
       <<"C", "u", "P", "y">>                        :> CuPy_instance @@
       <<"C", "U", "P", "Y">>                        :> CuPy_instance

\* _regularize_library(library); library is [type |-> "Library" | "type" | "str", value]
_regularize_library(library) ==
    IF library.type = "Library"
    THEN [kind |-> "return", value |-> _libraries[library.value.name]]
    ELSE IF library.type = "type"
    THEN [kind |-> "return", value |-> _libraries[Instantiate(library.value, 0).name]]
    ELSE IF library.value \in DOMAIN _libraries
         THEN [kind |-> "return", value |-> _libraries[library.value]]
         ELSE [kind |-> "ValueError",
               value |-> <<"unrecognized library: ">> \o Repr(library.value)]

\* the documented identifiers: canonical names and aliases, in lower case
CanonicalNames ==
       <<"n", "p">>                                  :> "NumPy" @@
       <<"n", "u", "m", "p", "y">>                   :> "NumPy" @@
       <<"a", "k">>                                  :> "Awkward" @@
       <<"a", "w", "k", "w", "a", "r", "d">>         :> "Awkward" @@
       <<"a", "w", "k", "w", "a", "r", "d", "1">>    :> "Awkward" @@
       <<"p", "d">>                                  :> "Pandas" @@
       <<"p", "a", "n", "d", "a", "s">>              :> "Pandas" @@
       <<"c", "p">>                                  :> "CuPy" @@
       <<"c", "u", "p", "y">>                        :> "CuPy"

UnknownIdentifiers ==
    {<<"t", "e", "n", "s", "o", "r", "f", "l", "o", "w">>,
     <<"r", "o", "o", "t">>, <<"n", "p", "y">>, <<>>}

RegistryInputs ==
    {[type |-> "str", value |-> v] :
        v \in UNION {CaseVariants(s) : s \in DOMAIN CanonicalNames \cup UnknownIdentifiers}}
    \cup {[type |-> "Library", value |-> Instantiate(c, o)] : c \in Classes, o \in {0, 5}}
    \cup {[type |-> "Library", value |-> s] : s \in Singletons}
    \cup {[type |-> "type", value |-> c] : c \in Classes}

(***************************************************************************)
(* The optional dependencies and `imported`.                               *)
(***************************************************************************)
Packages == {"numpy", "awkward1", "pandas", "cupy"}
OptionalPackages == Packages \ {"numpy"}

PackageOf(class) ==
    CASE class = "NumPy"   -> "numpy"
      [] class = "Awkward" -> "awkward1"
      [] class = "Pandas"  -> "pandas"
      [] class = "CuPy"    -> "cupy"

\* the text of the ImportError each class raises
Remediation(class) ==
    CASE class = "Awkward" -> "install the 'awkward1' package with:\n\n    pip install awkward1"
      [] class = "Pandas"  -> "install the 'pandas' package with:\n\n    pip install pandas\n\nor\n\n    conda install pandas"
      [] class = "CuPy"    -> "install the 'cupy' package with:\n\n    pip install cupy\n\nor\n\n    conda install cupy"
      [] OTHER             -> "No module named 'numpy'"

NoCall == [op |-> "none"]
NoResult == [kind |-> "none", value |-> <<>>]

\* The statement `import <package>`: a loaded module is taken from sys.modules;
\* otherwise the import machinery searches for it (an acquisition), and only a
\* module that was found is entered in sys.modules.
PyImport(package, inst, mods, acq) ==
    IF mods[package] # 0
    THEN [found |-> TRUE, mods |-> mods, acq |-> acq]
    ELSE LET n == acq[package] + 1 IN
         IF package \in inst
         THEN [found |-> TRUE,
               mods |-> [mods EXCEPT ![package] = n],
               acq  |-> [acq EXCEPT ![package] = n]]
         ELSE [found |-> FALSE, mods |-> mods, acq |-> [acq EXCEPT ![package] = n]]

\* the property `imported` of the class: the module, or ImportError with the hint
Imported(class, inst, mods, acq) ==
    LET package == PackageOf(class)
        imp == PyImport(package, inst, mods, acq)
    IN  [outcome |-> IF imp.found
                     THEN [kind |-> "module",
                           value |-> [module |-> package, handle |-> imp.mods[package]]]
                     ELSE [kind |-> "ImportError", value |-> Remediation(class)],
         mods |-> imp.mods,
         acq |-> imp.acq]

\* an import that would search is modelled only while the counter is below its bound
CanImport(class) ==
    \/ sys_modules[PackageOf(class)] # 0
    \/ acquisitions[PackageOf(class)] < MaxAcquisitions

EnvInit(installs) ==
    /\ installed \in installs
    /\ sys_modules = [p \in Packages |-> IF p = "numpy" THEN 1 ELSE 0]
    /\ acquisitions = [p \in Packages |-> IF p = "numpy" THEN 1 ELSE 0]
    /\ first = [p \in Packages |-> NoResult]

AnyInstall == {{"numpy"} \cup s : s \in SUBSET OptionalPackages}

\* the environment gains or loses a package (pip install / pip uninstall)
InstallDependency(package) ==
    /\ package \in OptionalPackages \ installed
    /\ installed' = installed \cup {package}
    /\ UNCHANGED <<sys_modules, acquisitions, first, pc, call, result, locals>>

UninstallDependency(package) ==
    /\ package \in OptionalPackages \cap installed
    /\ installed' = installed \ {package}
    /\ UNCHANGED <<sys_modules, acquisitions, first, pc, call, result, locals>>

\* a caller reads library.imported
CheckImported(caller, class) ==
    /\ CanImport(class)
    /\ LET r == Imported(class, installed, sys_modules, acquisitions)
           package == PackageOf(class)
       IN  /\ sys_modules' = r.mods
           /\ acquisitions' = r.acq
           /\ result' = r.outcome
           /\ first' = IF first[package] = NoResult
                       THEN [first EXCEPT ![package] = r.outcome]
                       ELSE first
    /\ call' = [op |-> "imported", caller |-> caller, class |-> class]
    /\ pc' = "done"
    /\ locals' = <<>>
    /\ UNCHANGED installed

InitImport ==
    /\ EnvInit(AnyInstall)
    /\ pc = "idle"
    /\ call = NoCall
    /\ result = NoResult
    /\ locals = <<>>

NextImport ==
    \/ \E p \in OptionalPackages : InstallDependency(p)
    \/ \E p \in OptionalPackages : UninstallDependency(p)
    \/ \E c \in 1..MaxCallers, class \in Classes : CheckImported(c, class)

SpecImport == InitImport /\ [][NextImport]_vars

(***************************************************************************)
(* Resolving a backend identifier.                                         *)
(***************************************************************************)
InitRegistry ==
    /\ EnvInit({Packages})
    /\ pc = "pending"
    /\ call \in {[op |-> "_regularize_library", library |-> l] : l \in RegistryInputs}
    /\ result = NoResult
    /\ locals = <<>>

RegularizeLibrary ==
    /\ pc = "pending"
    /\ call.op = "_regularize_library"
    /\ result' = _regularize_library(call.library)
    /\ pc' = "done"
    /\ UNCHANGED <<installed, sys_modules, acquisitions, first, call, locals>>

SpecRegistry == InitRegistry /\ [][RegularizeLibrary]_vars

(***************************************************************************)
(* The values of `how`, and the arguments of group.                        *)
(***************************************************************************)
HowTuple == [type |-> "type", value |-> "tuple"]
HowList  == [type |-> "type", value |-> "list"]
HowDict  == [type |-> "type", value |-> "dict"]
HowNone  == [type |-> "NoneType", value |-> "None"]
HowStr(s) == [type |-> "str", value |-> s]
HowInt   == [type |-> "int", value |-> "5"]

\* expression_context is a sequence of (name, context) pairs
Field(name, is_jagged) == <<name, [is_jagged |-> is_jagged]>>
NamesOf(expression_context) ==
    [i \in DOMAIN expression_context |-> expression_context[i][1]]

\* dict(pairs) for a sequence of (key, value) pairs: a repeated key keeps its last value
Dict(pairs) ==
    [k \in {pairs[i][1] : i \in DOMAIN pairs} |->
        pairs[CHOOSE i \in DOMAIN pairs :
                /\ pairs[i][1] = k
                /\ \A j \in DOMAIN pairs : pairs[j][1] = k => j <= i][2]]

\* a re-projection that walks expression_context from its end
Projection_Reversed(arrays, expression_context) ==
    [i \in DOMAIN expression_context |->
        arrays[expression_context[Len(expression_context) + 1 - i][1]]]

\* tuple(arrays[name] for name, _ in expression_context), and its list and dict forms
Projection(arrays, expression_context) ==
    [i \in DOMAIN expression_context |-> arrays[expression_context[i][1]]]
DictProjection(arrays, expression_context) ==
    Dict([i \in DOMAIN expression_context |->
            <<expression_context[i][1], arrays[expression_context[i][1]]>>])

Returned(kind, value) == [kind |-> kind, value |-> value]

\* Library.group, inherited by NumPy and CuPy
Library_group(self, arrays, expression_context, how) ==
    IF how = HowTuple
    THEN Returned("tuple", Projection(arrays, expression_context))
    ELSE IF how = HowList
    THEN Returned("list", Projection(arrays, expression_context))
    ELSE IF how = HowDict \/ how = HowNone
    THEN Returned("dict", DictProjection(arrays, expression_context))
    ELSE Returned("TypeError",
                  <<"for library ">> \o self.name
                  \o <<", how must be tuple, list, dict, or None (for dict)">>)

(***************************************************************************)
(* Awkward arrays, as far as group reads and builds them.                  *)
(***************************************************************************)
\* data names the buffer: the array it came from and, of a structured array, the subfield
NumpyArray(content, subfield) ==
    [class |-> "NumpyArray", data |-> <<content, subfield>>]
ListOffsetArray(offsets, content) ==
    [class |-> "ListOffsetArray", offsets |-> offsets, content |-> content]
RecordArray(fields) ==
    [class |-> "RecordArray", fields |-> fields]
\* Python's None, where an array is expected
None == [class |-> "None"]

\* awkward1.zip(fields, depth_limit=1): the arrays become the fields of one record
ZipDepth1(fields) == RecordArray(fields)

\* awkward1.zip(fields): jagged arrays of equal offsets become lists of records
ZipJagged(fields) ==
    LET any == fields[CHOOSE k \in DOMAIN fields : TRUE] IN
    ListOffsetArray(any.offsets, RecordArray([k \in DOMAIN fields |-> fields[k].content]))

\* awkward1.with_field(base, what, where)
With_field(base, what, where) ==
    RecordArray([k \in DOMAIN base.fields \cup {where} |->
                    IF k = where THEN what ELSE base.fields[k]])

\* numpy.array_equal
Array_equal(a, b) == a = b

(***************************************************************************)
(* Awkward.group, how="zip": the clusters of jagged fields.                *)
(***************************************************************************)
\* a search that compares with the newest cluster only
MatchingCluster_NewestOnly(offsets, o) ==
    IF Len(offsets) > 0 /\ Array_equal(o, offsets[Len(offsets)])
    THEN Len(offsets)
    ELSE 0

\* the cluster, first-seen first, whose offsets equal o; 0 when there is none
MatchingCluster(offsets, o) ==
    IF \E k \in DOMAIN offsets : Array_equal(o, offsets[k])
    THEN CHOOSE k \in DOMAIN offsets :
            /\ Array_equal(o, offsets[k])
            /\ \A j \in DOMAIN offsets : Array_equal(o, offsets[j]) => k <= j
    ELSE 0

\* one pass of the loop over expression_context
ClusterStep(st, name, context, array) ==
    IF context.is_jagged
    THEN LET k == MatchingCluster(st.offsets, array.offsets) IN
         IF k = 0
         THEN [st EXCEPT !.offsets = Append(@, array.offsets),
                         !.jaggeds = Append(@, <<name>>)]
         ELSE [st EXCEPT !.jaggeds[k] = Append(@, name)]
    ELSE [st EXCEPT !.nonjagged = Append(@, name)]

RECURSIVE ClusterLoop(_, _, _, _)
ClusterLoop(st, arrays, expression_context, i) ==
    IF i > Len(expression_context)
    THEN st
    ELSE ClusterLoop(
            ClusterStep(st, expression_context[i][1], expression_context[i][2],
                        arrays[expression_context[i][1]]),
            arrays, expression_context, i + 1)

ClusterFields(arrays, expression_context) ==
    ClusterLoop([nonjagged |-> <<>>, offsets |-> <<>>, jaggeds |-> <<>>],
                arrays, expression_context, 1)

(***************************************************************************)
(* Awkward.group, how="zip": the name of a cluster and of its fields.      *)
(***************************************************************************)
Min(a, b) == IF a < b THEN a ELSE b

\* while cut > 0 and name[:cut] != ref[:cut]: cut -= 1
RECURSIVE ShrinkCut(_, _, _)
ShrinkCut(name, ref, cut) ==
    IF cut > 0 /\ Take(name, cut) # Take(ref, cut)
    THEN ShrinkCut(name, ref, cut - 1)
    ELSE cut

\* the loop over the names of a cluster, from its i-th name on
RECURSIVE CutLoop(_, _, _)
CutLoop(jagged, cut, i) ==
    IF i > Len(jagged)
    THEN cut
    ELSE LET c == ShrinkCut(jagged[i], jagged[1], Min(cut, Len(jagged[i]))) IN
         IF c = 0 THEN 0 ELSE CutLoop(jagged, c, i + 1)

CommonCut(jagged) == CutLoop(jagged, Len(jagged[1]), 1)

Separators == {"_", ".", "/"}

RECURSIVE LStrip(_, _)
LStrip(s, chars) ==
    IF Len(s) > 0 /\ s[1] \in chars THEN LStrip(Tail(s), chars) ELSE s
RECURSIVE RStrip(_, _)
RStrip(s, chars) ==
    IF Len(s) > 0 /\ s[Len(s)] \in chars THEN RStrip(Take(s, Len(s) - 1), chars) ELSE s
\* str.strip(chars)
Strip(s, chars) == RStrip(LStrip(s, chars), chars)

Digits == <<"0", "1", "2", "3", "4", "5", "6", "7", "8", "9">>
\* str() of a natural number
RECURSIVE Str(_)
Str(n) == IF n < 10 THEN <<Digits[n + 1]>> ELSE Str(n \div 10) \o <<Digits[(n % 10) + 1]>>

\* the name given to cluster `number`
CommonName(jagged, cut, number) ==
    IF cut = 0
    THEN <<"j", "a", "g", "g", "e", "d">> \o Str(number)
    ELSE Strip(Take(jagged[1], cut), Separators)

\* the names its members are zipped under, in the order of the cluster
SubNames(jagged, cut) ==
    IF cut = 0
    THEN jagged
    ELSE [i \in DOMAIN jagged |-> Strip(Drop(jagged[i], cut), Separators)]

Cluster(arrays, jagged, number) ==
    LET cut == CommonCut(jagged)
        subnames == SubNames(jagged, cut)
    IN  [number |-> number,
         members |-> jagged,
         cut |-> cut,
         common |-> CommonName(jagged, cut, number),
         subnames |-> subnames,
         subarray |-> ZipJagged(Dict([i \in DOMAIN jagged |->
                                        <<subnames[i], arrays[jagged[i]]>>]))]

\* for name in jagged: out = awkward1.with_field(out, subarray, common)
RECURSIVE AttachLoop(_, _, _)
AttachLoop(out, cluster, n) ==
    IF n = 0
    THEN out
    ELSE AttachLoop(With_field(out, cluster.subarray, cluster.common), cluster, n - 1)

Attach(out, cluster) ==
    IF out.class = "None"
    THEN ZipDepth1(Dict(<< <<cluster.common, cluster.subarray>> >>))
    ELSE AttachLoop(out, cluster, Len(cluster.members))

RECURSIVE AttachAll(_, _, _)
AttachAll(out, clusters, k) ==
    IF k > Len(clusters)
    THEN out
    ELSE AttachAll(Attach(out, clusters[k]), clusters, k + 1)

\* the branch how == "zip" of Awkward.group: its result and its locals
ZipGroup(arrays, expression_context) ==
    LET st == ClusterFields(arrays, expression_context)
        clusters == [k \in DOMAIN st.jaggeds |-> Cluster(arrays, st.jaggeds[k], k - 1)]
        start == IF Len(st.nonjagged) # 0
                 THEN ZipDepth1(Dict([i \in DOMAIN st.nonjagged |->
                                        <<st.nonjagged[i], arrays[st.nonjagged[i]]>>]))
                 ELSE None
        out == AttachAll(start, clusters, 1)
    IN  [kind |-> IF out.class = "None" THEN "None" ELSE "ak.Array",
         value |-> out,
         locals |-> [nonjagged |-> st.nonjagged, offsets |-> st.offsets,
                     jaggeds |-> st.jaggeds, clusters |-> clusters]]

NoLocals == [nonjagged |-> <<>>, offsets |-> <<>>, jaggeds |-> <<>>, clusters |-> <<>>]
WithLocals(r, l) == [kind |-> r.kind, value |-> r.value, locals |-> l]

\* Awkward.group, after `awkward1 = self.imported` succeeded
Awkward_group(self, arrays, expression_context, how) ==
    IF how = HowTuple
    THEN WithLocals(Returned("tuple", Projection(arrays, expression_context)), NoLocals)
    ELSE IF how = HowList
    THEN WithLocals(Returned("list", Projection(arrays, expression_context)), NoLocals)
    ELSE IF how = HowDict
    THEN WithLocals(Returned("dict", DictProjection(arrays, expression_context)), NoLocals)
    ELSE IF how = HowNone
    THEN WithLocals(Returned("ak.Array",
                             ZipDepth1(DictProjection(arrays, expression_context))),
                    NoLocals)
    ELSE IF how = HowStr("zip")
    THEN ZipGroup(arrays, expression_context)
    ELSE WithLocals(
            Returned("TypeError",
                     <<"for library ">> \o self.name
                     \o <<", how must be tuple, list, dict, \"zip\" for a record array with jagged arrays zipped, if possible, or None, for an unzipped record array">>),
            NoLocals)

(***************************************************************************)
(* The calls of group.                                                     *)
(***************************************************************************)
GroupCall(self, arrays, expression_context, how) ==
    [op |-> "group", self |-> self, arrays |-> arrays,
     expression_context |-> expression_context, how |-> how]

\* NumPy().group and CuPy().group: the inherited method, which imports nothing
LibraryGroup ==
    /\ pc = "pending"
    /\ call.op = "group"
    /\ call.self.class \in {"NumPy", "CuPy"}
    /\ result' = Library_group(call.self, call.arrays, call.expression_context, call.how)
    /\ locals' = NoLocals
    /\ pc' = "done"
    /\ UNCHANGED <<installed, sys_modules, acquisitions, first, call>>

AwkwardGroup ==
    /\ pc = "pending"
    /\ call.op = "group"
    /\ call.self.class = "Awkward"
    /\ LET imp == Imported("Awkward", installed, sys_modules, acquisitions) IN
       /\ sys_modules' = imp.mods
       /\ acquisitions' = imp.acq
       /\ first' = IF first["awkward1"] = NoResult
                   THEN [first EXCEPT !["awkward1"] = imp.outcome]
                   ELSE first
       /\ IF imp.outcome.kind = "ImportError"
          THEN /\ result' = imp.outcome
               /\ locals' = NoLocals
          ELSE LET r == Awkward_group(call.self, call.arrays,
                                      call.expression_context, call.how)
               IN  /\ result' = Returned(r.kind, r.value)
                   /\ locals' = r.locals
    /\ pc' = "done"
    /\ UNCHANGED <<installed, call>>

(***************************************************************************)
(* Pandas objects, as far as finalize and group read and build them.       *)
(* A cell holds <<content, subfield, position>>: the array it came from,   *)
(* the subfield of a structured element, and the position in the array.    *)
(***************************************************************************)
Cell(content, subfield, position) == <<content, subfield, position>>
NaN == Cell(<<"N", "a", "N">>, <<>>, <<>>)

RangeIndex(n) ==
    [class |-> "RangeIndex", nlevels |-> 1, keys |-> [i \in 1..n |-> <<i - 1>>]]
MultiIndex(nlevels, keys) ==
    [class |-> "MultiIndex", nlevels |-> nlevels, keys |-> keys]
Series(values, index) ==
    [class |-> "Series", index |-> index, values |-> values]

\* pandas.MultiIndex.from_arrays([index]): the same labels as a one-level MultiIndex
FlatIndex(index) == MultiIndex(1, index.keys)

\* the position of the label of src that a target label selects (0: none).  A
\* MultiIndex of fewer levels than the target is looked up by its own levels only;
\* the labels of any other index are compared whole.
Locate(src, key) ==
    LET sought == IF src.class = "MultiIndex" /\ src.nlevels <= Len(key)
                  THEN Take(key, src.nlevels)
                  ELSE key
    IN  IF \E i \in DOMAIN src.keys : src.keys[i] = sought
        THEN CHOOSE i \in DOMAIN src.keys : src.keys[i] = sought
        ELSE 0

\* values.reindex(index), for the values of a Series or of one column
ReindexValues(values, src, index) ==
    [r \in DOMAIN index.keys |->
        IF Locate(src, index.keys[r]) = 0 THEN NaN
        ELSE values[Locate(src, index.keys[r])]]

\* Series.reindex(index)
Reindex(series, index) ==
    Series(ReindexValues(series.values, series.index, index), index)

\* a label of the same number of levels selects itself, any other nothing
Align(series, index) ==
    [r \in DOMAIN index.keys |->
        IF \E i \in DOMAIN series.index.keys : series.index.keys[i] = index.keys[r]
        THEN series.values[CHOOSE i \in DOMAIN series.index.keys :
                                series.index.keys[i] = index.keys[r]]
        ELSE NaN]

\* pandas.DataFrame(data=data, index=index, columns=columns)
DataFrame(data, index, columns) ==
    [class |-> "DataFrame", index |-> index, columns |-> columns,
     data |-> [c \in Range(columns) |-> Align(data[c], index)]]

\* the index pandas gives a DataFrame built from Series alone: the union of theirs
UnionIndex(data) ==
    LET longest == CHOOSE c \in DOMAIN data :
                      \A d \in DOMAIN data :
                          Len(data[d].index.keys) <= Len(data[c].index.keys)
    IN  data[longest].index

\* DataFrame.reindex(index)
ReindexFrame(df, index) ==
    [class |-> "DataFrame", index |-> index, columns |-> df.columns,
     data |-> [c \in Range(df.columns) |-> ReindexValues(df.data[c], df.index, index)]]

\* df[column]
Column(df, column) == Series(df.data[column], df.index)

\* labels in lexicographic order
RECURSIVE TupleLess(_, _)
TupleLess(a, b) ==
    IF Len(a) = 0 \/ Len(b) = 0
    THEN Len(a) < Len(b)
    ELSE IF a[1] # b[1] THEN a[1] < b[1] ELSE TupleLess(Tail(a), Tail(b))

RECURSIVE SortKeys(_)
SortKeys(S) ==
    IF S = {}
    THEN <<>>
    ELSE LET least == CHOOSE k \in S : \A j \in S : j = k \/ TupleLess(k, j)
         IN  <<least>> \o SortKeys(S \ {least})

\* s without the elements that fail keep, in order
RECURSIVE SelectKeys(_, _)
SelectKeys(s, keep) ==
    IF Len(s) = 0
    THEN <<>>
    ELSE IF s[1] \in keep
         THEN <<s[1]>> \o SelectKeys(Tail(s), keep)
         ELSE SelectKeys(Tail(s), keep)

MergeModes == {"left", "right", "outer", "inner"}

\* the labels of pandas.merge(left, right, how=how, left_index=True, right_index=True)
MergeKeys(left, right, how) ==
    CASE how = "left"  -> left.index.keys
      [] how = "right" -> right.index.keys
      [] how = "inner" -> SelectKeys(left.index.keys, Range(right.index.keys))
      [] how = "outer" -> SortKeys(Range(left.index.keys) \cup Range(right.index.keys))

PandasError(how) == [class |-> "Error", how |-> how]

\* pandas.merge on the two indexes; how is pandas' to check, and it rejects the rest
Merge(left, right, how) ==
    IF how \notin MergeModes
    THEN PandasError(how)
    ELSE LET index == MultiIndex(right.index.nlevels, MergeKeys(left, right, how))
             columns == left.columns \o right.columns
         IN  [class |-> "DataFrame", index |-> index, columns |-> columns,
              data |-> [c \in Range(columns) |->
                          IF c \in Range(left.columns)
                          THEN Align(Column(left, c), index)
                          ELSE Align(Column(right, c), index)]]

(***************************************************************************)
(* Pandas.group.                                                           *)
(***************************************************************************)
\* Pandas._only_series: a DataFrame is replaced by its columns, named name + subname
RECURSIVE OnlySeriesNames(_, _)
OnlySeriesNames(original_arrays, original_names) ==
    IF Len(original_names) = 0
    THEN <<>>
    ELSE LET name == original_names[1]
             x == original_arrays[name]
         IN  (IF x.class = "Series"
              THEN <<name>>
              ELSE [i \in DOMAIN x.columns |-> name \o x.columns[i]])
             \o OnlySeriesNames(original_arrays, Tail(original_names))

_only_series(original_arrays, original_names) ==
    LET pairs == [i \in DOMAIN original_names |->
                    LET name == original_names[i]
                        x == original_arrays[name]
                    IN  IF x.class = "Series"
                        THEN {<<name, x>>}
                        ELSE {<<name \o sub, Column(x, sub)>> : sub \in Range(x.columns)}]
        all == UNION Range(pairs)
    IN  [arrays |-> [n \in {pr[1] : pr \in all} |->
                        (CHOOSE pr \in all : pr[1] = n)[2]],
         names |-> OnlySeriesNames(original_arrays, original_names)]

\* the loop that clusters the MultiIndex columns by equal index
TabularStep(st, name, array) ==
    IF array.index.class = "MultiIndex"
    THEN LET k == MatchingCluster(st.indexes, array.index) IN
         IF k = 0
         THEN [indexes |-> Append(st.indexes, array.index),
               groups |-> Append(st.groups, <<name>>)]
         ELSE [st EXCEPT !.groups[k] = Append(@, name)]
    ELSE st

RECURSIVE TabularLoop(_, _, _, _)
TabularLoop(st, arrays, names, i) ==
    IF i > Len(names)
    THEN st
    ELSE TabularLoop(TabularStep(st, names[i], arrays[names[i]]), arrays, names, i + 1)

TabularClusters(arrays, names) ==
    TabularLoop([indexes |-> <<>>, groups |-> <<>>], arrays, names, 1)

\* a broadcast that keeps the RangeIndex instead of the one-level MultiIndex
BroadcastFlat_PlainIndex(array, index) ==
    Reindex(Series(array.values, array.index), index)

\* pandas.Series(array.values, index=flat_index).reindex(index)
BroadcastFlat(array, index) ==
    Reindex(Series(array.values, FlatIndex(array.index)), index)

\* how is None: the table of one cluster, the flat columns broadcast to its index
ClusterTable(arrays, names, index, group) ==
    LET gn == SelectKeys(names, {n \in Range(names) :
                                    \/ arrays[n].index.class = "RangeIndex"
                                    \/ n \in Range(group)})
        df == [n \in Range(gn) |->
                  IF arrays[n].index.class = "RangeIndex"
                  THEN BroadcastFlat(arrays[n], index)
                  ELSE arrays[n]]
    IN  DataFrame(df, index, gn)

\* how is a str: the tables of the clusters, merged one after the other
RECURSIVE MergeClusters(_, _, _, _, _)
MergeClusters(out, arrays, st, how, k) ==
    IF k > Len(st.indexes) \/ out.class = "Error"
    THEN out
    ELSE LET df == DataFrame([n \in Range(st.groups[k]) |-> arrays[n]],
                             st.indexes[k], st.groups[k])
         IN  MergeClusters(IF out.class = "None" THEN df ELSE Merge(out, df, how),
                           arrays, st, how, k + 1)

\* ... and the flat columns merged in, reindexed onto the index reached so far
MergeFlat(out, arrays, names, how) ==
    LET flat_names == SelectKeys(names, {n \in Range(names) :
                                            arrays[n].index.class = "RangeIndex"})
    IN  IF Len(flat_names) > 0 /\ out.class # "Error"
        THEN LET flat_index == FlatIndex(arrays[flat_names[1]].index)
                 df == DataFrame([n \in Range(flat_names) |->
                                     Series(arrays[n].values, flat_index)],
                                 flat_index, flat_names)
             IN  Merge(ReindexFrame(df, out.index), out, how)
        ELSE out

Tabular(arrays, names, how) ==
    IF \A n \in DOMAIN arrays : arrays[n].index.class = "RangeIndex"
    THEN Returned("DataFrame", DataFrame(arrays, UnionIndex(arrays), names))
    ELSE LET st == TabularClusters(arrays, names) IN
         IF how = HowNone
         THEN LET out == [k \in DOMAIN st.indexes |->
                            ClusterTable(arrays, names, st.indexes[k], st.groups[k])]
              IN  IF Len(out) = 1
                  THEN Returned("DataFrame", out[1])
                  ELSE Returned("tuple", out)
         ELSE LET out == MergeFlat(MergeClusters(None, arrays, st, how.value, 1),
                                   arrays, names, how.value)
              IN  IF out.class = "Error"
                  THEN Returned("PandasError", out)
                  ELSE Returned("DataFrame", out)

\* Pandas.group, after `pandas = self.imported` succeeded
Pandas_group(self, arrays, expression_context, how) ==
    LET names == NamesOf(expression_context) IN
    IF how = HowTuple
    THEN Returned("tuple", [i \in DOMAIN names |-> arrays[names[i]]])
    ELSE IF how = HowList
    THEN Returned("list", [i \in DOMAIN names |-> arrays[names[i]]])
    ELSE IF how = HowDict
    THEN Returned("dict", Dict([i \in DOMAIN names |-> <<names[i], arrays[names[i]]>>]))
    ELSE IF how.type = "str" \/ how = HowNone
    THEN LET only == _only_series(arrays, names)
         IN  Tabular(only.arrays, only.names, how)
    ELSE Returned("TypeError",
                  <<"for library ">> \o self.name
                  \o <<", how must be tuple, list, dict, str (for pandas.merge's 'how' parameter, or None (for one or more DataFrames without merging)">>)

PandasGroup ==
    /\ pc = "pending"
    /\ call.op = "group"
    /\ call.self.class = "Pandas"
    /\ LET imp == Imported("Pandas", installed, sys_modules, acquisitions) IN
       /\ sys_modules' = imp.mods
       /\ acquisitions' = imp.acq
       /\ first' = IF first["pandas"] = NoResult
                   THEN [first EXCEPT !["pandas"] = imp.outcome]
                   ELSE first
       /\ result' = IF imp.outcome.kind = "ImportError"
                    THEN imp.outcome
                    ELSE Pandas_group(call.self, call.arrays,
                                      call.expression_context, call.how)
    /\ locals' = NoLocals
    /\ pc' = "done"
    /\ UNCHANGED <<installed, call>>

(***************************************************************************)
(* The arrays finalize receives (uproot4.interpretation.jagged, .strings,  *)
(* .objects and numpy/cupy arrays), by the attributes finalize reads.      *)
(***************************************************************************)
JaggedArray(content, offsets, dtype) ==
    [variant |-> "JaggedArray", content |-> content, offsets |-> offsets,
     dtype |-> dtype, shape |-> <<Len(offsets) - 1>>, names |-> <<>>, device |-> "cpu"]
StringArray(content, offsets, dtype) ==
    [variant |-> "StringArray", content |-> content, offsets |-> offsets,
     dtype |-> dtype, shape |-> <<Len(offsets) - 1>>, names |-> <<>>, device |-> "cpu"]
ObjectArray(content, length) ==
    [variant |-> "ObjectArray", content |-> content, offsets |-> <<>>,
     dtype |-> "object", shape |-> <<length>>, names |-> <<>>, device |-> "cpu"]
\* names is dtype.names: the subfield names, <<>> for None
NdArray(content, shape, names, device) ==
    [variant |-> "ndarray", content |-> content, offsets |-> <<>>,
     dtype |-> "float64", shape |-> shape, names |-> names, device |-> device]

IsRagged(array) == array.variant \in {"JaggedArray", "StringArray", "ObjectArray"}

\* JaggedArray.parents_localindex(): for each element of the content, the entry
\* that owns it and its position in that entry
ParentsLocalindex(offsets) ==
    [j \in 1..offsets[Len(offsets)] |->
        LET entry == CHOOSE i \in 1..(Len(offsets) - 1) :
                        offsets[i] < j /\ j <= offsets[i + 1]
        IN  <<entry - 1, j - 1 - offsets[entry]>>]

\* the i-th element met in `for i, x in enumerate(array)`
Row(array, i) ==
    IF array.variant = "ObjectArray"
    THEN Cell(array.content, <<>>, <<i - 1>>)
    ELSE [class |-> IF array.variant = "StringArray" THEN "str" ELSE "ndarray",
          values |-> [j \in 1..(array.offsets[i + 1] - array.offsets[i]) |->
                        Cell(array.content, <<>>, <<array.offsets[i] + j - 1>>)]]

\* out = numpy.zeros(len(array), dtype=numpy.object); out[i] = x
ObjectColumn(array) == [i \in 1..array.shape[1] |-> Row(array, i)]

\* NumPy.finalize
NumPy_finalize(array) ==
    IF IsRagged(array)
    THEN Returned("ndarray", [class |-> "ndarray", dtype |-> "object",
                              values |-> ObjectColumn(array)])
    ELSE Returned("ndarray", array)

\* CuPy.finalize, after `cupy = self.imported` succeeded
CuPy_finalize(array) ==
    IF IsRagged(array)
    THEN Returned("TypeError", "jagged arrays and objects are not supported by CuPy")
    ELSE IF array.device = "gpu"
         THEN Returned("cupy.ndarray", array)
         ELSE Returned("AssertionError", "")

(***************************************************************************)
(* Awkward.finalize.                                                       *)
(***************************************************************************)
ListOffsetArrayOf(class, offsets, content, parameters) ==
    Returned("ak.Array",
             [class |-> class, offsets |-> offsets, content |-> content,
              parameters |-> parameters])

\* for size in shape[::-1]: out = awkward1.layout.RegularArray(out, size)
RECURSIVE RegularWrap(_, _)
RegularWrap(out, sizes) ==
    IF Len(sizes) = 0
    THEN out
    ELSE RegularWrap([class |-> "RegularArray", content |-> out, size |-> sizes[Len(sizes)]],
                     Take(sizes, Len(sizes) - 1))

\* the results Awkward.finalize can end in, after `awkward1 = self.imported`
\* succeeded.  awkward1.layout.Index32 is handed the offsets whatever their
\* dtype: it converts them to 32 signed bits (the offsets of the model are below
\* 2^31 and keep their values) or refuses them, as awkward1 decides.
Awkward_finalize(array) ==
    IF array.variant = "JaggedArray"
    THEN {ListOffsetArrayOf("ListOffsetArray32", array.offsets,
                            NumpyArray(array.content, <<>>), "None")}
         \cup (IF array.dtype = "int32" THEN {}
               ELSE {Returned("awkward1 error", array.dtype)})
    ELSE IF array.variant = "StringArray"
    THEN LET content == [class |-> "NumpyArray", data |-> <<array.content, <<>>>>,
                         dtype |-> "uint8", parameters |-> "char"]
         IN  IF array.dtype = "int32"
             THEN {ListOffsetArrayOf("ListOffsetArray32", array.offsets, content, "string")}
             ELSE IF array.dtype = "uint32"
             THEN {ListOffsetArrayOf("ListOffsetArrayU32", array.offsets, content, "string")}
             ELSE IF array.dtype = "int64"
             THEN {ListOffsetArrayOf("ListOffsetArray64", array.offsets, content, "string")}
             ELSE {Returned("AssertionError", array.dtype)}
    ELSE IF array.variant = "ObjectArray"
    THEN {Returned("NotImplementedError", "")}
    ELSE IF array.names # <<>>
    THEN {Returned("ak.Array",
                   RegularWrap([class |-> "RecordArray",
                                fields |-> [n \in Range(array.names) |->
                                              NumpyArray(array.content, n)],
                                length |-> array.shape[1]],
                               Tail(array.shape)))}
    ELSE {Returned("ak.Array", NumpyArray(array.content, <<>>))}

(***************************************************************************)
(* Pandas.finalize.                                                        *)
(***************************************************************************)
\* itertools.product(*[range(d) for d in dims]), in its order
RECURSIVE Product(_)
Product(dims) ==
    IF Len(dims) = 0
    THEN << <<>> >>
    ELSE LET rest == Product(Tail(dims))
             n == Len(rest)
         IN  [k \in 1..(dims[1] * n) |->
                <<(k - 1) \div n>> \o rest[((k - 1) % n) + 1]]

\* "".join("[" + str(x) + "]" for x in tup)
RECURSIVE Brackets(_)
Brackets(tup) ==
    IF Len(tup) = 0
    THEN <<>>
    ELSE <<"[">> \o Str(tup[1]) \o <<"]">> \o Brackets(Tail(tup))

\* array[n][(slice(None),) + tup]: a column of one value per entry
Slice(array, subfield, tup) ==
    Series([i \in 1..array.shape[1] |-> Cell(array.content, subfield, <<i - 1>> \o tup)],
           RangeIndex(array.shape[1]))

\* pandas.DataFrame(arrays, columns=names) for columns of one value per entry;
\* pairs is the sequence of (name, column) in the order of names
FrameOf(pairs, length) ==
    [class |-> "DataFrame", index |-> RangeIndex(length),
     columns |-> [i \in DOMAIN pairs |-> pairs[i][1]],
     data |-> [c \in {pairs[i][1] : i \in DOMAIN pairs} |-> Dict(pairs)[c].values]]

\* the columns of the subfields (or of the array itself, subfields = <<"">>),
\* one per combination of trailing indexes
Unpacked(array, prefix, subfields) ==
    LET tups == Product(Tail(array.shape))
        n == Len(tups)
    IN  [k \in 1..(Len(subfields) * n) |->
            LET sub == subfields[((k - 1) \div n) + 1]
                tup == tups[((k - 1) % n) + 1]
            IN  <<prefix \o sub \o Brackets(tup), Slice(array, sub, tup)>>]

\* Pandas.finalize, after `pandas = self.imported` succeeded
Pandas_finalize(array) ==
    IF array.variant = "JaggedArray"
    THEN Returned("Series",
                  Series([j \in 1..array.offsets[Len(array.offsets)] |->
                             Cell(array.content, <<>>, <<j - 1>>)],
                         MultiIndex(2, ParentsLocalindex(array.offsets))))
    ELSE IF array.variant \in {"StringArray", "ObjectArray"}
    THEN Returned("Series", Series(ObjectColumn(array), RangeIndex(array.shape[1])))
    ELSE IF array.names # <<>> /\ Len(array.shape) # 1
    THEN Returned("DataFrame", FrameOf(Unpacked(array, <<":">>, array.names), array.shape[1]))
    ELSE IF array.names # <<>>
    THEN Returned("DataFrame",
                  FrameOf([i \in DOMAIN array.names |->
                             <<<<":">> \o array.names[i], Slice(array, array.names[i], <<>>)>>],
                          array.shape[1]))
    ELSE IF Len(array.shape) # 1
    THEN Returned("DataFrame", FrameOf(Unpacked(array, <<>>, << <<>> >>), array.shape[1]))
    ELSE Returned("Series", Slice(array, <<>>, <<>>))

(***************************************************************************)
(* The calls of finalize.                                                  *)
(***************************************************************************)
FinalizeCall(self, array) == [op |-> "finalize", self |-> self, array |-> array]

NumPyFinalize ==
    /\ pc = "pending"
    /\ call.op = "finalize"
    /\ call.self.class = "NumPy"
    /\ result' = NumPy_finalize(call.array)
    /\ pc' = "done"
    /\ UNCHANGED <<installed, sys_modules, acquisitions, first, call, locals>>

\* finalize of a class that reads self.imported first
ImportThenFinalize(class, outcomes) ==
    /\ pc = "pending"
    /\ call.op = "finalize"
    /\ call.self.class = class
    /\ LET imp == Imported(class, installed, sys_modules, acquisitions) IN
       /\ sys_modules' = imp.mods
       /\ acquisitions' = imp.acq
       /\ first' = IF first[PackageOf(class)] = NoResult
                   THEN [first EXCEPT ![PackageOf(class)] = imp.outcome]
                   ELSE first
       /\ IF imp.outcome.kind = "ImportError"
          THEN result' = imp.outcome
          ELSE result' \in outcomes
    /\ pc' = "done"
    /\ UNCHANGED <<installed, call, locals>>

AwkwardFinalize == ImportThenFinalize("Awkward", Awkward_finalize(call.array))
PandasFinalize == ImportThenFinalize("Pandas", {Pandas_finalize(call.array)})
CuPyFinalize == ImportThenFinalize("CuPy", {CuPy_finalize(call.array)})

FieldNames == {<<"a">>, <<"b">>}
OffsetDtypes == {"int32", "uint32", "int64", "int16", "uint64"}
FinalizeOffsets == {<<0>>, <<0, 2, 3>>, <<0, 0, 1>>, <<0, 1, 1, 3>>}

RawArrays ==
    {JaggedArray(n, o, d) : n \in FieldNames, o \in FinalizeOffsets, d \in OffsetDtypes}
    \cup {StringArray(n, o, d) : n \in FieldNames, o \in FinalizeOffsets, d \in OffsetDtypes}
    \cup {ObjectArray(n, l) : n \in FieldNames, l \in {0, 2}}
    \cup {NdArray(n, sh, names, dev) :
            n \in FieldNames,
            sh \in {<<2>>, <<0>>, <<2, 2>>, <<1, 2, 3>>},
            names \in {<<>>, <<<<"x">>, <<"y">>>>},
            dev \in {"cpu", "gpu"}}

InitFinalize ==
    /\ EnvInit(AnyInstall)
    /\ pc = "pending"
    /\ \E self \in Singletons : \E array \in RawArrays : call = FinalizeCall(self, array)
    /\ result = NoResult
    /\ locals = NoLocals

NextFinalize ==
    \/ NumPyFinalize
    \/ AwkwardFinalize
    \/ PandasFinalize
    \/ CuPyFinalize

SpecFinalize == InitFinalize /\ [][NextFinalize]_vars

(***************************************************************************)
(* Awkward.group with how="zip", over small sets of named fields.          *)
(***************************************************************************)
MaxFields == 3

ZipNames ==
    {<<"a", "_", "x">>, <<"a", "_", "y">>, <<"a", ".", "x">>,
     <<"_", "a">>, <<"_", "b">>, <<"a">>, <<"b">>, <<"x">>}

\* offsets of jagged arrays of two entries
ZipOffsets == {<<0, 2, 3>>, <<0, 1, 3>>}

\* what Awkward.finalize makes of a flat and of a jagged array
AkFinalized(array) == (CHOOSE r \in Awkward_finalize(array) : r.kind = "ak.Array").value
AkFlat(name) == AkFinalized(NdArray(name, <<2>>, <<>>, "cpu"))
AkJagged(name, offsets) == AkFinalized(JaggedArray(name, offsets, "int32"))

\* sequences of distinct names, of 1 to n names
DistinctSeqs(names, n) ==
    UNION {{s \in [1..k -> names] : \A i, j \in 1..k : s[i] = s[j] => i = j} : k \in 1..n}

\* the call of group(how="zip") on the names, each flat (<<>>) or jagged by shape
ZipCall(names, shape) ==
    GroupCall(Awkward_instance,
              [n \in Range(names) |->
                    IF shape[n] = <<>> THEN AkFlat(n) ELSE AkJagged(n, shape[n])],
              [i \in DOMAIN names |-> Field(names[i], shape[names[i]] # <<>>)],
              HowStr("zip"))

InitZip ==
    /\ EnvInit({Packages})
    /\ pc = "pending"
    /\ \E names \in DistinctSeqs(ZipNames, MaxFields) :
          \E shape \in [Range(names) -> ZipOffsets \cup {<<>>}] :
             call = ZipCall(names, shape)
    /\ result = NoResult
    /\ locals = NoLocals

SpecZip == InitZip /\ [][AwkwardGroup]_vars

(***************************************************************************)
(* Pandas.group with how=None or a str, over columns finalized from a flat *)
(* array "a", jagged arrays "b" and "c", and a structured array "s".       *)
(***************************************************************************)
MaxEntries == 2
MaxRowLen == 2
MaxColumns == 3

\* the offsets of the rows of the given lengths
RECURSIVE OffsetsOf(_)
OffsetsOf(lengths) ==
    IF Len(lengths) = 0
    THEN <<0>>
    ELSE LET o == OffsetsOf(Take(lengths, Len(lengths) - 1))
         IN  Append(o, o[Len(o)] + lengths[Len(lengths)])

Reversed(s) == [i \in DOMAIN s |-> s[Len(s) + 1 - i]]

\* five entries, nine elements, one entry empty
ExampleLengths == <<2, 0, 3, 2, 2>>

TabularLengths ==
    UNION {[1..n -> 0..MaxRowLen] : n \in 1..MaxEntries} \cup {ExampleLengths}

TabularNames == {<<"a">>, <<"b">>, <<"c">>, <<"s">>}

\* the array behind each name, for rows of the given lengths in "b"
TabularRaw(name, lengths) ==
    CASE name = <<"a">> -> NdArray(name, <<Len(lengths)>>, <<>>, "cpu")
      [] name = <<"b">> -> JaggedArray(name, OffsetsOf(lengths), "int64")
      [] name = <<"c">> -> JaggedArray(name, OffsetsOf(Reversed(lengths)), "int64")
      [] name = <<"s">> -> NdArray(name, <<Len(lengths)>>, <<<<"x">>, <<"y">>>>, "cpu")

TabularHows ==
    {HowNone, HowStr("outer"), HowStr("inner"), HowStr("left"), HowStr("right"),
     HowStr("median"), HowInt}

TabularCall(names, lengths, how) ==
    [op |-> "group", self |-> Pandas_instance,
     arrays |-> [n \in Range(names) |-> Pandas_finalize(TabularRaw(n, lengths)).value],
     expression_context |->
        [i \in DOMAIN names |->
            Field(names[i], TabularRaw(names[i], lengths).variant = "JaggedArray")],
     how |-> how,
     raw |-> [n \in Range(names) |-> TabularRaw(n, lengths)]]

InitTabular ==
    /\ EnvInit({Packages})
    /\ pc = "pending"
    /\ \E names \in DistinctSeqs(TabularNames, MaxColumns) :
          \E lengths \in TabularLengths :
             \E how \in TabularHows :
                call = TabularCall(names, lengths, how)
    /\ result = NoResult
    /\ locals = NoLocals

SpecTabular == InitTabular /\ [][PandasGroup]_vars

(***************************************************************************)
(* group on every backend and for every how, over finalized fields.        *)
(***************************************************************************)
MaxContext == 2

GroupNames == {<<"a">>, <<"b">>, <<"c">>}

GroupHows ==
    {HowTuple, HowList, HowDict, HowNone, HowStr("zip"), HowStr("outer"),
     HowStr("median"), HowStr("dict"), HowInt}

\* the array behind a name: flat (<<>>) or jagged with the offsets given; an
\* array handed to CuPy is on the device
GroupRaw(class, name, offsets) ==
    IF offsets = <<>>
    THEN NdArray(name, <<2>>, <<>>, IF class = "CuPy" THEN "gpu" ELSE "cpu")
    ELSE JaggedArray(name, offsets, "int32")

\* what finalize of the class makes of it
Finalized(class, array) ==
    CASE class = "NumPy"   -> NumPy_finalize(array).value
      [] class = "Awkward" -> AkFinalized(array)
      [] class = "Pandas"  -> Pandas_finalize(array).value
      [] class = "CuPy"    -> CuPy_finalize(array).value

\* CuPy holds no jagged array
GroupShapes(class) ==
    [GroupNames -> IF class = "CuPy" THEN {<<>>} ELSE ZipOffsets \cup {<<>>}]

\* the names of expression_context; a name is repeated only for the
\* re-projections (tuple, list, dict), which are defined on repeated names
GroupContexts(how) ==
    IF how \in {HowTuple, HowList, HowDict}
    THEN UNION {[1..k -> GroupNames] : k \in 1..MaxContext}
    ELSE DistinctSeqs(GroupNames, MaxContext)

InitGroup ==
    /\ EnvInit({Packages, {"numpy"}})
    /\ pc = "pending"
    /\ \E self \in Singletons :
          \E shape \in GroupShapes(self.class) :
             \E how \in GroupHows :
                \E names \in GroupContexts(how) :
                   call = GroupCall(
                            self,
                            [n \in GroupNames |->
                                Finalized(self.class, GroupRaw(self.class, n, shape[n]))],
                            [i \in DOMAIN names |-> Field(names[i], shape[names[i]] # <<>>)],
                            how)
    /\ result = NoResult
    /\ locals = NoLocals

NextGroup ==
    \/ LibraryGroup
    \/ AwkwardGroup
    \/ PandasGroup

SpecGroup == InitGroup /\ [][NextGroup]_vars

(***************************************************************************)
(* Properties.                                                             *)
(***************************************************************************)
GroupDone == pc = "done" /\ call.op = "group" /\ result.kind # "ImportError"
ContextNames == NamesOf(call.expression_context)

\* C1: with the backend's dependency importable, group with how="median" ends, on
\* every backend, in a TypeError whose message names the backend; no aggregate
\* is returned.
C1_MedianIsTypeError ==
    (GroupDone /\ call.how = HowStr("median"))
        => /\ result.kind = "TypeError"
           /\ \E i \in 1..Len(result.value) :
                 SubSeq(result.value, i, i + Len(call.self.name) - 1) = call.self.name

\* C2: on every backend, group(how=tuple) and group(how=list) return a sequence as
\* long as expression_context whose i-th element is the input container of the
\* i-th name, and group(how=dict) returns a mapping whose keys are exactly the
\* names of expression_context, each mapped to that name's input container.
C2_ProjectionKeepsOrderAndKeys ==
    (GroupDone /\ call.how \in {HowTuple, HowList, HowDict})
        => IF call.how = HowDict
           THEN /\ result.kind = "dict"
                /\ DOMAIN result.value = Range(ContextNames)
                /\ \A n \in Range(ContextNames) : result.value[n] = call.arrays[n]
           ELSE /\ result.kind = call.how.value
                /\ Len(result.value) = Len(call.expression_context)
                /\ \A i \in DOMAIN ContextNames :
                      result.value[i] = call.arrays[ContextNames[i]]

\* a tuple of two different containers, asked for against the order of the names,
\* from a mapping that holds a third
C2_Witness ==
    /\ GroupDone
    /\ call.self.class = "Pandas"
    /\ call.how = HowTuple
    /\ ContextNames = <<<<"b">>, <<"a">>>>
    /\ call.arrays[<<"a">>].index.class = "RangeIndex"
    /\ call.arrays[<<"b">>].index.class = "MultiIndex"
    /\ <<"c">> \in DOMAIN call.arrays
    /\ result = Returned("tuple", <<call.arrays[<<"b">>], call.arrays[<<"a">>]>>)

\* C3: for each backend the dependency is searched for at most once, and every
\* read of `imported` after the first ends as the first did (the same handle,
\* or the same error), whatever happened to the environment in between.
C3_AcquiredOnceAndCached ==
    /\ \A p \in Packages : acquisitions[p] <= 1
    /\ (pc = "done" /\ call.op = "imported")
          => result = first[PackageOf(call.class)]

\* C4: every string that equals a canonical name or an alias when letter case is
\* ignored resolves to the singleton of that backend; every other string ends in
\* a ValueError that names it.
C4_ResolutionIgnoresCase ==
    (pc = "done" /\ call.op = "_regularize_library" /\ call.library.type = "str")
        => IF Lower(call.library.value) \in DOMAIN CanonicalNames
           THEN /\ result.kind = "return"
                /\ result.value \in Singletons
                /\ result.value.class = CanonicalNames[Lower(call.library.value)]
           ELSE /\ result.kind = "ValueError"
                /\ result.value = <<"unrecognized library: ">> \o Repr(call.library.value)

ZipDone == GroupDone /\ call.self.class = "Awkward" /\ call.how = HowStr("zip")
JaggedNames == {ContextNames[i] : i \in {j \in DOMAIN call.expression_context :
                                            call.expression_context[j][2].is_jagged}}
ClustersOf(name) == {k \in DOMAIN locals.jaggeds : name \in Range(locals.jaggeds[k])}

\* C5: in Awkward.group(how="zip"), every jagged field is in exactly one cluster,
\* and two jagged fields are in the same cluster exactly when their offsets are
\* elementwise equal, whatever their names and positions.
C5_ClustersAreOffsetClasses ==
    ZipDone
        => /\ \A n \in JaggedNames :
                /\ Cardinality(ClustersOf(n)) = 1
                /\ \A k \in ClustersOf(n) :
                      Cardinality({i \in DOMAIN locals.jaggeds[k] :
                                      locals.jaggeds[k][i] = n}) = 1
           /\ \A n, m \in JaggedNames :
                (call.arrays[n].offsets = call.arrays[m].offsets)
                    <=> (ClustersOf(n) = ClustersOf(m))
           /\ \A k \in DOMAIN locals.jaggeds : Range(locals.jaggeds[k]) \subseteq JaggedNames

\* two fields of equal offsets and unrelated names, a field of other offsets
\* between them: two clusters, the first of the two fields
C5_Witness ==
    /\ ZipDone
    /\ Len(call.expression_context) = 3
    /\ JaggedNames = Range(ContextNames)
    /\ call.arrays[ContextNames[1]].offsets = call.arrays[ContextNames[3]].offsets
    /\ call.arrays[ContextNames[1]].offsets # call.arrays[ContextNames[2]].offsets
    /\ ContextNames[1][1] # ContextNames[3][1]
    /\ locals.jaggeds = <<<<ContextNames[1], ContextNames[3]>>, <<ContextNames[2]>>>>

\* C6: for every cluster with a non-empty common prefix, the names left after the
\* prefix and the separators are removed have an empty common prefix: computing
\* the common prefix again strips nothing more.
C6_StrippingIsIdempotent ==
    ZipDone
        => \A k \in DOMAIN locals.clusters :
              locals.clusters[k].cut > 0 => CommonCut(locals.clusters[k].subnames) = 0

TabularNamesAB == {<<"a">>, <<"b">>}
\* the elements of the jagged array: (entry, subentry), counted from 0
Leaves(offsets) ==
    {x \in (0..(Len(offsets) - 2)) \X (0..(offsets[Len(offsets)] - 1)) :
        x[2] < offsets[x[1] + 2] - offsets[x[1] + 1]}
TabularCaseAB ==
    /\ GroupDone
    /\ call.self.class = "Pandas"
    /\ call.how \in {HowNone, HowStr("outer")}
    /\ Len(call.expression_context) = 2
    /\ Range(ContextNames) = TabularNamesAB

\* C7: for a flat column a over n entries and a column b finalized from a jagged
\* array of n entries, Pandas.group with how="outer" and with how=None returns one
\* table with exactly offsets[-1] rows, one for each (entry, subentry) of b and
\* none twice, and in each row a holds its value at the row's entry (and b its
\* own element).
C7_OneRowPerLeafWithBroadcast ==
    TabularCaseAB
        => LET o == call.raw[<<"b">>].offsets
               df == result.value
           IN  /\ result.kind = "DataFrame"
               /\ Len(df.index.keys) = o[Len(o)]
               /\ Range(df.index.keys) = Leaves(o)
               /\ \A r, q \in DOMAIN df.index.keys :
                     df.index.keys[r] = df.index.keys[q] => r = q
               /\ \A r \in DOMAIN df.index.keys :
                     /\ df.data[<<"a">>][r] = Cell(<<"a">>, <<>>, <<df.index.keys[r][1]>>)
                     /\ df.data[<<"b">>][r] =
                            Cell(<<"b">>, <<>>,
                                 <<o[df.index.keys[r][1] + 1] + df.index.keys[r][2]>>)

\* the documented example: offsets [0,2,2,5,7,9], merged with how="outer" into 9 rows
C7_Witness ==
    /\ TabularCaseAB
    /\ call.how = HowStr("outer")
    /\ call.raw[<<"b">>].offsets = <<0, 2, 2, 5, 7, 9>>
    /\ call.raw[<<"a">>].shape = <<5>>
    /\ result.kind = "DataFrame"
    /\ Len(result.value.index.keys) = 9
    /\ result.value.data[<<"a">>][3] = Cell(<<"a">>, <<>>, <<2>>)

FinalizeDone == pc = "done" /\ call.op = "finalize" /\ result.kind # "ImportError"

\* C8: Awkward.finalize of a Jagged and of a String array keeps the width of the
\* offsets: int32 gives ListOffsetArray32, uint32 ListOffsetArrayU32, int64
\* ListOffsetArray64, and any other width ends in an AssertionError.
C8_OffsetsWidthPreserved ==
    (FinalizeDone /\ call.self.class = "Awkward"
        /\ call.array.variant \in {"JaggedArray", "StringArray"})
        => CASE call.array.dtype = "int32" ->
                    result.kind = "ak.Array" /\ result.value.class = "ListOffsetArray32"
             [] call.array.dtype = "uint32" ->
                    result.kind = "ak.Array" /\ result.value.class = "ListOffsetArrayU32"
             [] call.array.dtype = "int64" ->
                    result.kind = "ak.Array" /\ result.value.class = "ListOffsetArray64"
             [] OTHER -> result.kind = "AssertionError"

\* C9: a cluster whose common prefix is empty once its separators are stripped is
\* attached under "jagged<number>" with its members under their own names; the
\* name of a cluster is never the empty string.
C9_SyntheticNameForEmptyPrefix ==
    ZipDone
        => \A k \in DOMAIN locals.clusters :
              LET c == locals.clusters[k] IN
              /\ c.common # <<>>
              /\ c.common \in DOMAIN result.value.fields
              /\ Len(Strip(Take(c.members[1], c.cut), Separators)) = 0
                    => /\ c.common = <<"j", "a", "g", "g", "e", "d">> \o Str(k - 1)
                       /\ c.subnames = c.members

\* C10: the record returned for m non-jagged fields and k clusters has exactly
\* m + k top-level fields: each non-jagged field under its name, holding its
\* array, and one sub-record for each cluster, with one sub-field for each member.
C10_OneFieldPerFlatAndPerCluster ==
    ZipDone
        => /\ result.kind = "ak.Array"
           /\ Cardinality(DOMAIN result.value.fields)
                 = Len(locals.nonjagged) + Len(locals.jaggeds)
           /\ \A i \in DOMAIN locals.nonjagged :
                 /\ locals.nonjagged[i] \in DOMAIN result.value.fields
                 /\ result.value.fields[locals.nonjagged[i]] = call.arrays[locals.nonjagged[i]]
           /\ \A k \in DOMAIN locals.clusters :
                 LET c == locals.clusters[k] IN
                 /\ c.common \in DOMAIN result.value.fields
                 /\ result.value.fields[c.common] = c.subarray
                 /\ Cardinality(DOMAIN c.subarray.content.fields) = Len(c.members)

=============================================================================
